---- MODULE Spec2Model ----
(***************************************************************************)
(* The logger tree of logging/logger.go: logger nodes with a parent link,  *)
(* an ordered children list and an Open/Closed state; the handler list and *)
(* the panicOnError flag kept on the root of each tree; the dispatch of    *)
(* records and lifecycle events to the root's handlers; the cascading      *)
(* Close; the caller resolver; and the variadic attribute parser.          *)
(***************************************************************************)
EXTENDS Integers, Sequences, FiniteSets, TLC

(* ------------------------------ bounds --------------------------------- *)

\* Loggers ever allocated (NewLogger and NewChildLogger together).
MaxNodes == 3

\* Handler objects ever registered (AddHandler calls, over all trees).
MaxHandlers == 2

\* Longest argument list given to argsToAttrs in the parser specification.
MaxArgs == 4

\* Most lines of a reader given to LogReader.
MaxLines == 2

\* Goroutines that call into one tree at the same time.
MaxGoroutines == 2

\* Resolver specification: the deepest logger, counted from the logger the
\* calling code closes, whose Close resolves its caller.
MaxCloseDepth == 7

(* --------------------------- program constants ------------------------- *)

\* pcs := make([]uintptr, 8)
MaxPCs == 8

LoggerState_Open == 0
LoggerState_Closed == 1

LevelDebug == 0
LevelInfo == 1
LevelWarn == 2
LevelError == 3
LevelFatal == 4
LevelPanic == 5

\* The nil *Logger of a root's parent field.
NilLogger == 0

(* ------------------------------ state ---------------------------------- *)

VARIABLES
    loggers,    \* the heap of Logger structs, indexed by allocation order
    exited,     \* the process has called os.Exit
    last,       \* the operation executed last, with what it did and gave back
    args,       \* argsToAttrs: the argument list it was called with
    remaining,  \* argsToAttrs: the local variable remaining
    attrs,      \* argsToAttrs: the local variable attrs
    apc,        \* argsToAttrs: "loop" while in the for loop, "done" once returned
    callStack,  \* getCaller: the call stack it is called on, innermost frame first
    found,      \* getCaller: what it gave back, NotResolved before the call
    functionPaths, \* getModulePath: the Function of two frames of one stack
    modules,    \* getModulePath: what it gave back for each, <<>> before the calls
    gor,        \* concurrent calls: each goroutine's call, position and locals
    events      \* concurrent calls: the handler calls made so far, in order

vars == <<loggers, exited, last, args, remaining, attrs, apc, callStack, found,
          functionPaths, modules, gor, events>>
treeVars == <<loggers, exited, last>>
attrVars == <<args, remaining, attrs, apc>>
callerVars == <<callStack, found, functionPaths, modules>>
goVars == <<gor, events>>

Nodes == 1..Len(loggers)

(* ------------------------- function paths ------------------------------ *)
\* A function path is the string runtime.Frame.Function, as a sequence of
\* characters.

Pkg == <<"t", ".", "i", "o", "/", "l", "o", "g">>

FnGetCaller == Pkg \o <<".", "g", "e", "t", "C">>
FnNewChildLogger == Pkg \o <<".", "(", "*", "L", ")", ".", "N", "e", "w">>
FnClose == Pkg \o <<".", "(", "*", "L", ")", ".", "C", "l", "o", "s", "e">>
FnLog == Pkg \o <<".", "(", "*", "L", ")", ".", "L", "o", "g">>
FnDebug == Pkg \o <<".", "(", "*", "L", ")", ".", "D", "e", "b", "u", "g">>
FnInfo == Pkg \o <<".", "(", "*", "L", ")", ".", "I", "n", "f", "o">>
FnWarn == Pkg \o <<".", "(", "*", "L", ")", ".", "W", "a", "r", "n">>
FnError == Pkg \o <<".", "(", "*", "L", ")", ".", "E", "r", "r", "o", "r">>
FnFatal == Pkg \o <<".", "(", "*", "L", ")", ".", "F", "a", "t", "a", "l">>
FnPanic == Pkg \o <<".", "(", "*", "L", ")", ".", "P", "a", "n", "i", "c">>
FnLogReader == Pkg \o <<".", "(", "*", "L", ")", ".", "L", "o", "g", "R">>

\* The frames of user code below a logging call, innermost first: a program's
\* main function under the runtime; and a test of the logging package that
\* calls through helpers of its own package, under the testing runner.
FnMain == <<"m", "a", "i", "n", ".", "m", "a", "i", "n">>
FnRuntimeMain == <<"r", "u", "n", "t", "i", "m", "e", ".", "m", "a", "i", "n">>
FnGoexit == <<"r", "u", "n", "t", "i", "m", "e", ".", "g", "o", "e", "x", "i", "t">>
FnHelper == Pkg \o <<".", "h", "e", "l", "p">>
FnTRunner == <<"t", "e", "s", "t", "i", "n", "g", ".", "t", "R", "u", "n">>

\* A test of the logging package written as a function literal (the body
\* handed to t.Run): the compiler names it after the enclosing function.
FnTestClosure == Pkg \o <<".", "T", "e", "s", "t", ".", "f", "u", "n", "c", "1">>

ProgramStack == <<FnMain, FnRuntimeMain, FnGoexit>>
PackageTestStack ==
    <<FnHelper, FnHelper, FnHelper, FnHelper, FnHelper, FnHelper, FnHelper, FnTRunner, FnGoexit>>
PackageClosureStack == <<FnTestClosure, FnTRunner, FnGoexit>>

UserStacks == {ProgramStack, PackageTestStack, PackageClosureStack}

(* --------------------------- caller resolver --------------------------- *)

\* strings.Contains(s, c) for a one-character c.
Contains(s, c) == \E i \in 1..Len(s) : s[i] = c

\* strings.LastIndex(s, c) for a one-character c: 0-based, -1 when absent.
LastIndex(s, c) ==
    IF Contains(s, c)
    THEN (CHOOSE i \in 1..Len(s) : s[i] = c /\ \A j \in (i+1)..Len(s) : s[j] # c) - 1
    ELSE -1

\* getModulePath: [panic |-> TRUE] for the panic, else the module path.
getModulePath(functionPath) ==
    LET isMethod == Contains(functionPath, "(")
        endOfModuleName == IF isMethod
                           THEN LastIndex(functionPath, "(") - 1
                           ELSE LastIndex(functionPath, ".")
    IN  IF endOfModuleName = -1
        THEN [panic |-> TRUE, path |-> <<>>]
        ELSE [panic |-> FALSE, path |-> SubSeq(functionPath, 1, endOfModuleName)]

\* The results of getCaller: a frame with a nil error, (nil, ErrNoCaller), or
\* the panic of getModulePath. A frame is its Function.
NoFrame == <<>>
ErrNoCaller == [kind |-> "ErrNoCaller"]
NilErr == [kind |-> "nil"]
CallerFound(frame) == [panic |-> FALSE, frame |-> frame, err |-> NilErr]
CallerNone == [panic |-> FALSE, frame |-> NoFrame, err |-> ErrNoCaller]
CallerPanic == [panic |-> TRUE, frame |-> NoFrame, err |-> NilErr]

\* getCaller has not been called yet.
NotResolved == [panic |-> FALSE, frame |-> NoFrame, err |-> [kind |-> "pending"]]

\* The for loop of getCaller over pcs[i..], the first frame already taken.
RECURSIVE scanFrames(_, _, _)
scanFrames(pcs, i, thisModule) ==
    LET module == getModulePath(pcs[i])
        more == i < Len(pcs)
    IN  IF module.panic THEN CallerPanic
        ELSE IF module.path # thisModule THEN CallerFound(pcs[i])
        ELSE IF ~more THEN CallerNone
        ELSE scanFrames(pcs, i + 1, thisModule)

\* getCaller on the call stack `stack` (innermost first, getCaller's own frame
\* first: runtime.Callers(1, pcs) skips runtime.Callers itself).
getCaller(stack) ==
    LET n == IF Len(stack) < MaxPCs THEN Len(stack) ELSE MaxPCs
        pcs == SubSeq(stack, 1, n)
    IN  IF Len(pcs) = 0 THEN CallerNone
        ELSE IF ~(1 < Len(pcs)) THEN CallerNone
        ELSE LET thisModule == getModulePath(pcs[1])
             IN  IF thisModule.panic THEN CallerPanic
                 ELSE scanFrames(pcs, 2, thisModule.path)

(* ------------------------- attribute parser ---------------------------- *)

\* A value of type any: a Go string or a Go int.
StrArg(x) == [type |-> "string", s |-> x, i |-> 0]
IntArg(x) == [type |-> "int", s |-> "", i |-> x]

Attribute(key, value) == [Key |-> key, Value |-> value]

\* args[k:] of a Go slice.
SliceFrom(s, k) == SubSeq(s, k + 1, Len(s))

\* A key with a value after it consumes the key alone.
nextAttrFromArgs_KeyOnly(as) ==
    LET x == as[1]
    IN  IF x.type = "string"
        THEN IF Len(as) = 1
             THEN [attr |-> Attribute("!BADKEY", x), remaining |-> <<>>]
             ELSE [attr |-> Attribute(x.s, as[2]), remaining |-> SliceFrom(as, 1)]
        ELSE [attr |-> Attribute("!BADKEY", x), remaining |-> SliceFrom(as, 1)]

\* nextAttrFromArgs(args), for a non-empty args: the attribute and remaining.
nextAttrFromArgs(as) ==
    LET x == as[1]
    IN  IF x.type = "string"
        THEN IF Len(as) = 1
             THEN [attr |-> Attribute("!BADKEY", x), remaining |-> <<>>]
             ELSE [attr |-> Attribute(x.s, as[2]), remaining |-> SliceFrom(as, 2)]
        ELSE [attr |-> Attribute("!BADKEY", x), remaining |-> SliceFrom(as, 1)]

\* The for loop of argsToAttrs from the state (rem, acc) of its two locals.
RECURSIVE argsToAttrsLoop(_, _)
argsToAttrsLoop(rem, acc) ==
    IF Len(rem) > 0
    THEN LET r == nextAttrFromArgs(rem)
         IN  argsToAttrsLoop(r.remaining, Append(acc, r.attr))
    ELSE acc

argsToAttrs(as) == argsToAttrsLoop(as, <<>>)

(* ------------------------------ errors --------------------------------- *)

\* The error a handler returns from call `call` as entry idx of the handler
\* list, about logger n.
HandlerErr(call, idx, n) == [kind |-> "handler", call |-> call, idx |-> idx, node |-> n]

\* Only the first error is kept.
Join_FirstOnly(errs) ==
    LET nonNil == SelectSeq(errs, LAMBDA e : e # NilErr)
    IN  IF Len(nonNil) = 0 THEN NilErr ELSE [kind |-> "join", errs |-> <<nonNil[1]>>]

\* errors.Join(errs...): nil values are discarded; nil when none is left.
Join(errs) ==
    LET nonNil == SelectSeq(errs, LAMBDA e : e # NilErr)
    IN  IF Len(nonNil) = 0 THEN NilErr ELSE [kind |-> "join", errs |-> nonNil]

(* ----------------------------- logger tree ----------------------------- *)

\* NewLogger: the struct it allocates (id is the index in the heap).
NewLoggerStruct ==
    [parent |-> NilLogger, children |-> <<>>, state |-> LoggerState_Open,
     panicOnError |-> FALSE, handlers |-> <<>>]

RECURSIVE RootLogger(_, _)
RootLogger(lg, n) ==
    IF lg[n].parent # NilLogger THEN RootLogger(lg, lg[n].parent) ELSE n

\* The handlers field of the logger itself is given back.
Handlers_OwnList(lg, n) == lg[n].handlers

Handlers(lg, n) == lg[RootLogger(lg, n)].handlers

\* The flag is read from the logger itself.
PanicOnError_OwnField(lg, n) == lg[n].panicOnError

PanicOnError(lg, n) == lg[RootLogger(lg, n)].panicOnError

\* The handler is appended to the handlers field of n itself.
addHandler_OwnList(lg, n, handler) ==
    [lg EXCEPT ![n].handlers = Append(lg[n].handlers, handler)]

\* The heap after AddHandler(handler) on n.
addHandler(lg, n, handler) ==
    [lg EXCEPT ![RootLogger(lg, n)].handlers = Append(lg[RootLogger(lg, n)].handlers, handler)]

\* The heap after SetPanicOnError(value) on n.
setPanicOnError(lg, n, value) ==
    [lg EXCEPT ![RootLogger(lg, n)].panicOnError = value]

(* --------------------------- handler calls ----------------------------- *)

NoRecord == [Level |-> -1, Message |-> "", Caller |-> NoFrame, Attributes |-> <<>>]

\* A handler object. A TestHandler is an implementation of Handler from
\* outside the repository, told apart by the order of registration; whether a
\* call on it fails is an input of the operation that makes the call. The
\* JsonHandler and the PrettyHandler are the repository's own, made by
\* NewJsonHandler(writer, level) and NewPrettyHandler(writer, level); their
\* writer is one whose Write succeeds or one whose Write fails.
TestHandler(id) == [id |-> id, kind |-> "TestHandler", level |-> LevelDebug, writer |-> "none"]
NewJsonHandler(id, writer, level) ==
    [id |-> id, kind |-> "JsonHandler", level |-> level, writer |-> writer]
NewPrettyHandler(id, writer, level) ==
    [id |-> id, kind |-> "PrettyHandler", level |-> level, writer |-> writer]

\* How a handler method ends: it returns (an error or nil; OnLoggerCreated
\* returns nothing) without having written, it returns after
\* handler.writer.Write (which fails on a failing writer; reportsErr says
\* whether the method returns the error of the write), or it panics.
HandlerReturns(failed) == [how |-> "return", failed |-> failed, write |-> "none"]
HandlerWrites(handler, reportsErr) ==
    [how |-> "return", failed |-> reportsErr /\ handler.writer = "failing",
     write |-> IF handler.writer = "failing" THEN "failed" ELSE "ok"]
HandlerPanics == [how |-> "panic", failed |-> FALSE, write |-> "none"]

\* The panic of caller.File on a nil caller.
NilDereference == [kind |-> "runtime", s |-> "invalid memory address or nil pointer dereference"]

\* JsonHandler: every method reads caller.File first; the result of
\* writer.Write is dropped (the err tested after it is that of json.Marshal,
\* which is nil for these messages).
JsonHandler_OnLoggerCreated(handler, caller) ==
    IF caller = NoFrame THEN HandlerPanics ELSE HandlerWrites(handler, FALSE)

JsonHandler_OnLoggerClosed(handler, caller) ==
    IF caller = NoFrame THEN HandlerPanics ELSE HandlerWrites(handler, FALSE)

JsonHandler_HandleRecord(handler, record) ==
    IF record.Level < handler.level THEN HandlerReturns(FALSE)
    ELSE IF record.Caller = NoFrame THEN HandlerPanics
    ELSE HandlerWrites(handler, FALSE)

\* PrettyHandler: the two lifecycle methods do nothing; HandleRecord prints
\* "<UNKNOWN CALLER>" for a nil caller and returns the error of fmt.Fprintf.
PrettyHandler_OnLoggerCreated(handler, caller) == HandlerReturns(FALSE)

PrettyHandler_OnLoggerClosed(handler, caller) == HandlerReturns(FALSE)

PrettyHandler_HandleRecord(handler, record) ==
    IF record.Level < handler.level THEN HandlerReturns(FALSE)
    ELSE HandlerWrites(handler, TRUE)

\* The method `call` of handler h, by the dynamic type of h; `failing` says
\* whether a TestHandler returns an error from this call.
callHandler(h, call, caller, record, failing) ==
    IF h.kind = "JsonHandler"
    THEN (IF call = "OnLoggerCreated" THEN JsonHandler_OnLoggerCreated(h, caller)
          ELSE IF call = "OnLoggerClosed" THEN JsonHandler_OnLoggerClosed(h, caller)
          ELSE JsonHandler_HandleRecord(h, record))
    ELSE IF h.kind = "PrettyHandler"
    THEN (IF call = "OnLoggerCreated" THEN PrettyHandler_OnLoggerCreated(h, caller)
          ELSE IF call = "OnLoggerClosed" THEN PrettyHandler_OnLoggerClosed(h, caller)
          ELSE PrettyHandler_HandleRecord(h, record))
    ELSE HandlerReturns(failing /\ call # "OnLoggerCreated")

\* One call of a handler method: which method, on which handler, about which
\* logger, with which caller and record, how it ended, the error it returned,
\* what became of its write, and the heap as it was during the call (what
\* the handler can read through the *Logger it is given).
HandlerCall(call, h, n, caller, record, how, err, write, heap) ==
    [call |-> call, h |-> h, node |-> n, caller |-> caller, record |-> record,
     how |-> how, err |-> err, write |-> write, heap |-> heap]

\* What an operation did: its name, receiver and argument (the handler of
\* AddHandler, the value of SetPanicOnError), how it ended ("return",
\* "panic", "exit"), the error returned, the panic value or exit status,
\* the new logger if one was made, and the handler calls made, in order.
Outcome(op, n, arg, how, ret, pval, made, trace) ==
    [op |-> op, node |-> n, arg |-> arg, how |-> how, ret |-> ret, pval |-> pval,
     made |-> made, trace |-> trace]

\* The argument recorded for an operation whose arguments are not looked at.
NoArg == [kind |-> "none"]

ExitStatus(code) == [kind |-> "exit", code |-> code]
NoPanicValue == [kind |-> "none"]
StringPanic(x) == [kind |-> "string", s |-> x]
GetModulePathPanic == StringPanic("malformed module name does not contain a . delimiter")

\* The result of an operation on the heap: the heap it leaves, how it ended,
\* the error returned, the panic value and the handler calls made.
Result(lg, how, ret, pval, trace) ==
    [lg |-> lg, how |-> how, ret |-> ret, pval |-> pval, trace |-> trace]

\* for _, handler := range logger.Handlers() { handler.<call>(...) } on the
\* handler list hs, about logger n, in the heap lg: the calls made, in order,
\* up to the first one that panics, the error each returned, and how the
\* loop ended. Entry i, if a TestHandler, fails when i is in failsAt.
dispatch(hs, call, lg, n, caller, record, failsAt) ==
    LET r == [i \in 1..Len(hs) |-> callHandler(hs[i], call, caller, record, i \in failsAt)]
        panicking == {i \in 1..Len(hs) : r[i].how = "panic"}
        stop == IF panicking = {} THEN Len(hs)
                ELSE CHOOSE i \in panicking : \A j \in panicking : i <= j
        calls == [i \in 1..stop |->
                    HandlerCall(call, hs[i], n, caller, record, r[i].how,
                                IF r[i].failed THEN HandlerErr(call, i, n) ELSE NilErr,
                                r[i].write, lg)]
    IN  [calls |-> calls,
         errs |-> [i \in 1..stop |-> calls[i].err],
         how |-> IF panicking = {} THEN "return" ELSE "panic"]

(* --------------------------- NewChildLogger ---------------------------- *)

\* The child is put at the front of p's children.
linkChild_Prepend(lg, p) ==
    LET childLogger == Len(lg) + 1
    IN  Append([lg EXCEPT ![p].children = <<childLogger>> \o lg[p].children],
               [NewLoggerStruct EXCEPT !.parent = p])

\* The child's parent is set to the root of p's tree.
linkChild_ParentIsRoot(lg, p) ==
    LET childLogger == Len(lg) + 1
    IN  Append([lg EXCEPT ![p].children = Append(lg[p].children, childLogger)],
               [NewLoggerStruct EXCEPT !.parent = RootLogger(lg, p)])

\* The heap once NewChildLogger on p has allocated the child, set its parent
\* and appended it to p's children.
linkChild(lg, p) ==
    LET childLogger == Len(lg) + 1
    IN  Append([lg EXCEPT ![p].children = Append(lg[p].children, childLogger)],
               [NewLoggerStruct EXCEPT !.parent = p])

\* NewChildLogger on p, called from the frames `user`.
newChildLogger(lg, p, user) ==
    LET childLogger == Len(lg) + 1
        linked == linkChild(lg, p)
        c == getCaller(<<FnGetCaller, FnNewChildLogger>> \o user)
        d == dispatch(Handlers(linked, childLogger), "OnLoggerCreated", linked, childLogger,
                      c.frame, NoRecord, {})
    IN  IF c.panic THEN Result(linked, "panic", NilErr, GetModulePathPanic, <<>>)
        ELSE IF c.err # NilErr /\ c.err # ErrNoCaller
        THEN Result(linked, "panic", NilErr, c.err, <<>>)
        ELSE IF d.how = "panic"
        THEN Result(linked, "panic", NilErr, NilDereference, d.calls)
        ELSE Result(linked, "return", NilErr, NoPanicValue, d.calls)

(* -------------------------------- Close -------------------------------- *)

\* The guard of Close left out: a Closed logger is closed again.
alreadyClosed_Never(lg, n) == FALSE

\* if logger.state == LoggerState_Closed { return nil }
alreadyClosed(lg, n) == lg[n].state = LoggerState_Closed

\* The handlers are notified about a logger before its children are closed.
closeOrder_OwnFirst(childCalls, ownCalls) == ownCalls \o childCalls

\* The order of the handler calls of one Close: the calls made while the
\* children were closed, then the OnLoggerClosed calls for the logger itself.
closeOrder(childCalls, ownCalls) == childCalls \o ownCalls

\* The logger is marked Closed before its handlers are notified.
closedEventHeap_MarkedFirst(lg, n) == [lg EXCEPT ![n].state = LoggerState_Closed]

\* The heap during the OnLoggerClosed calls for n, lg being the heap once the
\* children of n have been closed: the calls are made before
\* logger.state = LoggerState_Closed.
closedEventHeap(lg, n) == lg

RECURSIVE closeLogger(_, _, _, _)
RECURSIVE closeChildren(_, _, _, _, _)

\* Close on n with the frames `below` under its own frame; OnLoggerClosed of
\* entry i of the handler list fails for logger m when <<m, i>> is in fails.
closeLogger(lg, n, below, fails) ==
    IF alreadyClosed(lg, n)
    THEN Result(lg, "return", NilErr, NoPanicValue, <<>>)
    ELSE LET kids == closeChildren(lg[n].children, 1, <<FnClose>> \o below, fails,
                                   [lg |-> lg, how |-> "return", errs |-> <<>>,
                                    pval |-> NoPanicValue, trace |-> <<>>])
             c == getCaller(<<FnGetCaller, FnClose>> \o below)
             hs == Handlers(kids.lg, n)
             d == dispatch(hs, "OnLoggerClosed", closedEventHeap(kids.lg, n), n, c.frame,
                           NoRecord, {i \in 1..Len(hs) : <<n, i>> \in fails})
             errs == kids.errs \o d.errs
         IN  IF kids.how = "panic"
             THEN Result(kids.lg, "panic", NilErr, kids.pval, kids.trace)
             ELSE IF c.panic
             THEN Result(kids.lg, "panic", NilErr, GetModulePathPanic, kids.trace)
             ELSE IF c.err # NilErr /\ c.err # ErrNoCaller
             THEN Result(kids.lg, "return", c.err, NoPanicValue, kids.trace)
             ELSE IF d.how = "panic"
             THEN Result(kids.lg, "panic", NilErr, NilDereference,
                         closeOrder(kids.trace, d.calls))
             ELSE Result([kids.lg EXCEPT ![n].state = LoggerState_Closed], "return",
                         Join(errs), NoPanicValue, closeOrder(kids.trace, d.calls))

\* for _, child := range logger.children, from entry i on, with the running
\* heap, errs and handler calls in acc; `below` are the frames under the
\* child's Close frame.
closeChildren(children, i, below, fails, acc) ==
    IF i > Len(children) THEN acc
    ELSE LET r == closeLogger(acc.lg, children[i], below, fails)
         IN  IF r.how = "panic"
             THEN [lg |-> r.lg, how |-> "panic", errs |-> acc.errs, pval |-> r.pval,
                   trace |-> acc.trace \o r.trace]
             ELSE closeChildren(children, i + 1, below, fails,
                      [lg |-> r.lg, how |-> "return",
                       errs |-> IF r.ret # NilErr THEN Append(acc.errs, r.ret) ELSE acc.errs,
                       pval |-> NoPanicValue, trace |-> acc.trace \o r.trace])

(* --------------------------------- Log --------------------------------- *)

\* Log on n with the frames `below` under its own frame; HandleRecord of entry
\* i of the handler list fails when i is in fails.
logRecord(lg, n, level, message, as, below, fails) ==
    LET c == getCaller(<<FnGetCaller, FnLog>> \o below)
        record == [Level |-> level, Message |-> message, Caller |-> c.frame,
                   Attributes |-> argsToAttrs(as)]
        d == dispatch(Handlers(lg, n), "HandleRecord", lg, n, c.frame, record, fails)
    IN  IF c.panic THEN Result(lg, "panic", NilErr, GetModulePathPanic, <<>>)
        ELSE IF c.err # NilErr /\ c.err # ErrNoCaller
        THEN Result(lg, "return", c.err, NoPanicValue, <<>>)
        ELSE IF d.how = "panic"
        THEN Result(lg, "panic", NilErr, NilDereference, d.calls)
        ELSE Result(lg, "return", Join(d.errs), NoPanicValue, d.calls)

\* The check is left out.
panicCheck_Never(lg, n, err) == FALSE

\* if err != nil && logger.PanicOnError() { panic(err) }
panicCheck(lg, n, err) == err # NilErr /\ PanicOnError(lg, n)

\* Debug, Info, Warn, Error: fn is the method's own frame.
leveledLog(lg, n, level, fn, message, as, user, fails) ==
    LET r == logRecord(lg, n, level, message, as, <<fn>> \o user, fails)
    IN  IF r.how = "panic" THEN r
        ELSE IF panicCheck(lg, n, r.ret)
        THEN Result(lg, "panic", NilErr, r.ret, r.trace)
        ELSE Result(lg, "return", r.ret, NoPanicValue, r.trace)

\* Fatal: how = "exit" is os.Exit(1).
fatalLog(lg, n, message, as, user, fails) ==
    LET r == logRecord(lg, n, LevelFatal, message, as, <<FnFatal>> \o user, fails)
    IN  IF r.how = "panic" THEN r
        ELSE IF panicCheck(lg, n, r.ret)
        THEN Result(lg, "panic", NilErr, r.ret, r.trace)
        ELSE Result(lg, "exit", NilErr, ExitStatus(1), r.trace)

\* Panic.
panicLog(lg, n, message, as, user, fails) ==
    LET r == logRecord(lg, n, LevelPanic, message, as, <<FnPanic>> \o user, fails)
    IN  IF r.how = "panic" THEN r
        ELSE IF panicCheck(lg, n, r.ret)
        THEN Result(lg, "panic", NilErr, r.ret, r.trace)
        ELSE Result(lg, "panic", NilErr, StringPanic("an unrecoverable error has occurred"),
                    r.trace)

(* ------------------------------ LogReader ------------------------------ *)

\* An io.Reader as bufio.Scanner sees it: `lines` lines that scanner.Scan()
\* delivers with scanner.Err() nil, and then the end. "EOF": Scan returns
\* false. "ErrAtLineStart": the read fails with nothing buffered and Scan
\* returns false. "ErrInLine": the read fails inside a line, Scan delivers
\* what was buffered and returns true, and scanner.Err() is the read error.
Reader(lines, end) == [lines |-> lines, end |-> end]
ReaderEnds == {"EOF", "ErrAtLineStart", "ErrInLine"}
ReadErr == [kind |-> "read"]

\* The for loop of LogReader from line i on, trace being the handler calls
\* made so far. failsByLine[i] are the entries of the handler list whose
\* HandleRecord fails for line i. logger.Log(...) is a statement: what it
\* returns is not kept.
RECURSIVE logLines(_, _, _, _, _, _, _, _, _)
logLines(lg, n, reader, i, level, as, user, failsByLine, trace) ==
    IF i > reader.lines
    THEN IF reader.end = "ErrInLine"
         THEN Result(lg, "return", ReadErr, NoPanicValue, trace)
         ELSE Result(lg, "return", NilErr, NoPanicValue, trace)
    ELSE LET r == logRecord(lg, n, level, "line", as, <<FnLogReader>> \o user, failsByLine[i])
         IN  IF r.how = "panic"
             THEN Result(lg, "panic", NilErr, r.pval, trace \o r.trace)
             ELSE logLines(lg, n, reader, i + 1, level, as, user, failsByLine,
                           trace \o r.trace)

\* LogReader on n, called from the frames `user`.
logReader(lg, n, reader, level, as, user, failsByLine) ==
    logLines(lg, n, reader, 1, level, as, user, failsByLine, <<>>)

(* ------------------------------- inputs -------------------------------- *)

\* The handler objects registered so far, over all loggers' handlers fields.
RegisteredHandlers(lg) == UNION {{lg[n].handlers[i] : i \in 1..Len(lg[n].handlers)} : n \in 1..Len(lg)}

\* The handler object a new AddHandler call registers: one not seen before.
FreshHandler(lg) == TestHandler(Cardinality(RegisteredHandlers(lg)) + 1)

\* The levels given to a direct Log call: the lowest and the highest.
Levels == {LevelDebug, LevelPanic}

\* The argument lists of the logging calls of the tree specification.
LogArgs == {<<StrArg("key"), IntArg(1)>>}

\* The loggers of the subtree of n: n and the loggers below it.
RECURSIVE InSubtree(_, _, _)
InSubtree(lg, n, m) ==
    \/ m = n
    \/ lg[m].parent # NilLogger /\ InSubtree(lg, n, lg[m].parent)

Subtree(lg, n) == {m \in 1..Len(lg) : InSubtree(lg, n, m)}

\* The handlers of the repository given to AddHandler as the id-th handler
\* registered: a JsonHandler on a writer that works and on one that fails,
\* and a PrettyHandler on a failing writer from level Debug and from level
\* Error.
RepoHandlers(id) ==
    {NewJsonHandler(id, "ok", LevelDebug), NewJsonHandler(id, "failing", LevelDebug),
     NewPrettyHandler(id, "failing", LevelDebug), NewPrettyHandler(id, "failing", LevelError)}

\* The OnLoggerClosed calls that may fail during Close on n.
CloseFailures(lg, n) == SUBSET (Subtree(lg, n) \X (1..Len(Handlers(lg, n))))

\* The HandleRecord calls that may fail during a logging call on n.
LogFailures(lg, n) == SUBSET (1..Len(Handlers(lg, n)))

\* The readers given to LogReader and the level it is given.
Readers == {Reader(k, end) : k \in 0..MaxLines, end \in ReaderEnds}
ReaderLevels == {LevelInfo}

(* ------------------------------- actions ------------------------------- *)

NoOutcome == Outcome("none", NilLogger, NoArg, "return", NilErr, NoPanicValue, NilLogger, <<>>)

\* The calling code is between two calls: the process runs and the result
\* of its last call has been taken.
Ready == ~exited /\ last = NoOutcome

Finish(op, n, arg, r, made) ==
    /\ loggers' = r.lg
    /\ exited' = (r.how = "exit")
    /\ last' = Outcome(op, n, arg, r.how, r.ret, r.pval, made, r.trace)
    /\ UNCHANGED attrVars
    /\ UNCHANGED callerVars
    /\ UNCHANGED goVars

NewLogger ==
    /\ Ready
    /\ Len(loggers) < MaxNodes
    /\ Finish("NewLogger", NilLogger, NoArg,
              Result(Append(loggers, NewLoggerStruct), "return", NilErr, NoPanicValue, <<>>),
              Len(loggers) + 1)

NewChildLogger ==
    /\ Ready
    /\ Len(loggers) < MaxNodes
    /\ \E p \in Nodes, user \in UserStacks :
          Finish("NewChildLogger", p, NoArg, newChildLogger(loggers, p, user), Len(loggers) + 1)

Close ==
    /\ Ready
    /\ \E n \in Nodes, user \in UserStacks :
          \E fails \in CloseFailures(loggers, n) :
             Finish("Close", n, NoArg, closeLogger(loggers, n, user, fails), NilLogger)

AddHandler ==
    /\ Ready
    /\ \E n \in Nodes, handler \in {FreshHandler(loggers)} :
          /\ Cardinality(RegisteredHandlers(loggers)) < MaxHandlers
          /\ Finish("AddHandler", n, handler,
                    Result(addHandler(loggers, n, handler), "return", NilErr, NoPanicValue, <<>>),
                    NilLogger)

SetPanicOnError ==
    /\ Ready
    /\ \E n \in Nodes, value \in BOOLEAN :
          Finish("SetPanicOnError", n, value,
                 Result(setPanicOnError(loggers, n, value), "return", NilErr, NoPanicValue, <<>>),
                 NilLogger)

Log ==
    /\ Ready
    /\ \E n \in Nodes, level \in Levels, as \in LogArgs, user \in UserStacks :
          \E fails \in LogFailures(loggers, n) :
             Finish("Log", n, NoArg, logRecord(loggers, n, level, "msg", as, user, fails), NilLogger)

Debug ==
    /\ Ready
    /\ \E n \in Nodes, as \in LogArgs, user \in UserStacks :
          \E fails \in LogFailures(loggers, n) :
             Finish("Debug", n, NoArg,
                    leveledLog(loggers, n, LevelDebug, FnDebug, "msg", as, user, fails),
                    NilLogger)

Info ==
    /\ Ready
    /\ \E n \in Nodes, as \in LogArgs, user \in UserStacks :
          \E fails \in LogFailures(loggers, n) :
             Finish("Info", n, NoArg,
                    leveledLog(loggers, n, LevelInfo, FnInfo, "msg", as, user, fails),
                    NilLogger)

Warn ==
    /\ Ready
    /\ \E n \in Nodes, as \in LogArgs, user \in UserStacks :
          \E fails \in LogFailures(loggers, n) :
             Finish("Warn", n, NoArg,
                    leveledLog(loggers, n, LevelWarn, FnWarn, "msg", as, user, fails),
                    NilLogger)

Error ==
    /\ Ready
    /\ \E n \in Nodes, as \in LogArgs, user \in UserStacks :
          \E fails \in LogFailures(loggers, n) :
             Finish("Error", n, NoArg,
                    leveledLog(loggers, n, LevelError, FnError, "msg", as, user, fails),
                    NilLogger)

Fatal ==
    /\ Ready
    /\ \E n \in Nodes, as \in LogArgs, user \in UserStacks :
          \E fails \in LogFailures(loggers, n) :
             Finish("Fatal", n, NoArg, fatalLog(loggers, n, "msg", as, user, fails), NilLogger)

Panic ==
    /\ Ready
    /\ \E n \in Nodes, as \in LogArgs, user \in UserStacks :
          \E fails \in LogFailures(loggers, n) :
             Finish("Panic", n, NoArg, panicLog(loggers, n, "msg", as, user, fails), NilLogger)

LogReader ==
    /\ Ready
    /\ \E n \in Nodes, reader \in Readers, level \in ReaderLevels, as \in LogArgs,
          user \in UserStacks :
          \E failsByLine \in [1..reader.lines -> LogFailures(loggers, n)] :
             Finish("LogReader", n, reader,
                    logReader(loggers, n, reader, level, as, user, failsByLine), NilLogger)

\* The calling code takes the result of its call (a returned value, or a
\* panic it recovers) and goes on to its next call.
Resume ==
    /\ ~exited
    /\ last # NoOutcome
    /\ last' = NoOutcome
    /\ UNCHANGED <<loggers, exited>>
    /\ UNCHANGED attrVars
    /\ UNCHANGED callerVars
    /\ UNCHANGED goVars

Init ==
    /\ loggers = <<>>
    /\ exited = FALSE
    /\ last = NoOutcome
    /\ args = <<>>
    /\ remaining = <<>>
    /\ attrs = <<>>
    /\ apc = "done"
    /\ callStack = <<>>
    /\ found = NotResolved
    /\ functionPaths = <<>>
    /\ modules = <<>>
    /\ gor = <<>>
    /\ events = <<>>

Next ==
    \/ NewLogger
    \/ NewChildLogger
    \/ Close
    \/ AddHandler
    \/ SetPanicOnError
    \/ Log
    \/ Debug
    \/ Info
    \/ Warn
    \/ Error
    \/ Fatal
    \/ Panic
    \/ LogReader
    \/ Resume

Spec == Init /\ [][Next]_vars

(* ------------------ the handlers of the repository --------------------- *)

\* AddHandler with a JsonHandler or a PrettyHandler.
AddRepoHandler ==
    /\ Ready
    /\ Cardinality(RegisteredHandlers(loggers)) < MaxHandlers
    /\ \E n \in Nodes, handler \in RepoHandlers(Cardinality(RegisteredHandlers(loggers)) + 1) :
          Finish("AddHandler", n, handler,
                 Result(addHandler(loggers, n, handler), "return", NilErr, NoPanicValue, <<>>),
                 NilLogger)

NextRepo ==
    \/ NewLogger
    \/ NewChildLogger
    \/ Close
    \/ AddRepoHandler
    \/ Log
    \/ Error
    \/ LogReader
    \/ Resume

SpecRepo == Init /\ [][NextRepo]_vars

(* ---------------------- argsToAttrs, step by step ---------------------- *)

\* The values the argument lists are made of.
ArgValues ==
    {StrArg("key1"), StrArg("key2"), StrArg("lonekey"), StrArg("key"), StrArg("v"),
     IntArg(1), IntArg(2), IntArg(42)}

ArgLists == UNION {[1..k -> ArgValues] : k \in 0..MaxArgs}

\* argsToAttrs has been called with args and has set up its two locals.
InitAttrs ==
    /\ loggers = <<>>
    /\ exited = FALSE
    /\ last = NoOutcome
    /\ args \in ArgLists
    /\ remaining = args
    /\ attrs = <<>>
    /\ apc = "loop"
    /\ callStack = <<>>
    /\ found = NotResolved
    /\ functionPaths = <<>>
    /\ modules = <<>>
    /\ gor = <<>>
    /\ events = <<>>

\* One turn of the for loop.
argsToAttrsStep ==
    /\ apc = "loop"
    /\ Len(remaining) > 0
    /\ LET r == nextAttrFromArgs(remaining)
       IN  /\ remaining' = r.remaining
           /\ attrs' = Append(attrs, r.attr)
    /\ UNCHANGED <<args, apc>>
    /\ UNCHANGED treeVars
    /\ UNCHANGED callerVars
    /\ UNCHANGED goVars

\* The loop condition fails: return attrs.
argsToAttrsReturn ==
    /\ apc = "loop"
    /\ ~(Len(remaining) > 0)
    /\ apc' = "done"
    /\ UNCHANGED <<args, remaining, attrs>>
    /\ UNCHANGED treeVars
    /\ UNCHANGED callerVars
    /\ UNCHANGED goVars

NextAttrs ==
    \/ argsToAttrsStep
    \/ argsToAttrsReturn

\* The call runs on: nothing suspends a synchronous loop.
SpecAttrs == InitAttrs /\ [][NextAttrs]_vars /\ WF_vars(NextAttrs)

(* ------------------------ getCaller on its own ------------------------- *)

\* k frames of Close, one above the other.
RECURSIVE CloseFrames(_)
CloseFrames(k) == IF k = 0 THEN <<>> ELSE <<FnClose>> \o CloseFrames(k - 1)

\* The frames of package logging above the calling code at a call of
\* getCaller, innermost first: from NewChildLogger, from Log called directly,
\* through a leveled method or through LogReader, and from the Close of a
\* logger d levels below the one the calling code closes.
LoggingPaths ==
    {<<FnGetCaller, FnNewChildLogger>>, <<FnGetCaller, FnLog>>, <<FnGetCaller, FnLog, FnLogReader>>}
    \cup {<<FnGetCaller, FnLog, fn>> : fn \in {FnDebug, FnInfo, FnWarn, FnError, FnFatal, FnPanic}}
    \cup {<<FnGetCaller>> \o CloseFrames(d + 1) : d \in 0..MaxCloseDepth}

\* Frames of calling code in other packages: a pointer-receiver method, a
\* value-receiver method and a closure.
FnUserMethod == <<"a", "p", "p", ".", "(", "*", "S", ")", ".", "R", "u", "n">>
FnUserValueMethod == <<"a", "p", "p", ".", "T", ".", "M">>
FnUserClosure == <<"m", "a", "i", "n", ".", "m", "a", "i", "n", ".", "f", "u", "n", "c", "1">>

\* The frames of the calling code, innermost first.
CallingStacks ==
    {ProgramStack,
     PackageTestStack,
     <<FnHelper, FnTRunner, FnGoexit>>,
     PackageClosureStack,
     <<FnUserMethod>> \o ProgramStack,
     <<FnUserValueMethod>> \o ProgramStack,
     <<FnUserClosure>> \o ProgramStack}

\* getCaller is about to run on a stack.
InitCaller ==
    /\ loggers = <<>>
    /\ exited = FALSE
    /\ last = NoOutcome
    /\ args = <<>>
    /\ remaining = <<>>
    /\ attrs = <<>>
    /\ apc = "done"
    /\ callStack \in {path \o user : path \in LoggingPaths, user \in CallingStacks}
    /\ found = NotResolved
    /\ functionPaths = <<>>
    /\ modules = <<>>
    /\ gor = <<>>
    /\ events = <<>>

ResolveCaller ==
    /\ found = NotResolved
    /\ found' = getCaller(callStack)
    /\ UNCHANGED <<callStack, functionPaths, modules>>
    /\ UNCHANGED treeVars
    /\ UNCHANGED attrVars
    /\ UNCHANGED goVars

NextCaller == ResolveCaller

SpecCaller == InitCaller /\ [][NextCaller]_vars

(* ---------------------- getModulePath on its own ---------------------- *)

\* The names the Go toolchain gives the functions of a package, as
\* runtime.Frame.Function reports them: a free function, a method with a
\* pointer receiver, a method with a value receiver, and a function literal
\* inside a free function.
FreeFunction(pkg) == pkg \o <<".", "F">>
PointerMethod(pkg) == pkg \o <<".", "(", "*", "T", ")", ".", "M">>
ValueMethod(pkg) == pkg \o <<".", "T", ".", "M">>
FuncLiteral(pkg) == pkg \o <<".", "F", ".", "f", "u", "n", "c", "1">>

\* Package paths: the logging package, package main, a package with a short
\* path and one below a dotted host name.
Packages ==
    {Pkg, <<"m", "a", "i", "n">>, <<"a", "p", "p">>, <<"g", ".", "c", "/", "a", "p", "p">>}

\* Function paths with no "." in them.
Malformed == {<<"m", "a", "i", "n">>, <<"F">>}

FunctionPaths ==
    UNION {{FreeFunction(pkg), PointerMethod(pkg), ValueMethod(pkg), FuncLiteral(pkg)} :
              pkg \in Packages}
    \cup Malformed

\* getCaller is about to compare the modules of two frames of a stack.
InitModule ==
    /\ loggers = <<>>
    /\ exited = FALSE
    /\ last = NoOutcome
    /\ args = <<>>
    /\ remaining = <<>>
    /\ attrs = <<>>
    /\ apc = "done"
    /\ callStack = <<>>
    /\ found = NotResolved
    /\ functionPaths \in {<<first, later>> : first \in FunctionPaths, later \in FunctionPaths}
    /\ modules = <<>>
    /\ gor = <<>>
    /\ events = <<>>

\* thisModule := getModulePath(firstFrame.Function) and
\* module := getModulePath(frame.Function)
ResolveModules ==
    /\ functionPaths # <<>>
    /\ modules = <<>>
    /\ modules' = <<getModulePath(functionPaths[1]), getModulePath(functionPaths[2])>>
    /\ UNCHANGED <<callStack, found, functionPaths>>
    /\ UNCHANGED treeVars
    /\ UNCHANGED attrVars
    /\ UNCHANGED goVars

NextModule == ResolveModules

SpecModule == InitModule /\ [][NextModule]_vars

(* ------------------------- concurrent calls ---------------------------- *)
\* Goroutines call NewChildLogger, AddHandler and Close on one tree with no
\* lock: each read and each write of a field is a step of its own, and the
\* steps of the goroutines interleave.

Goroutines == 1..MaxGoroutines

\* The trees the calling code has built before the goroutines start: a root
\* with one handler; the same with a child; the same with a grandchild.
Tree1 == addHandler(<<NewLoggerStruct>>, 1, TestHandler(1))
Tree2 == linkChild(Tree1, 1)
Tree3 == linkChild(Tree2, 2)
Trees == {Tree1, Tree2, Tree3}

\* One activation of Close: its receiver, where it stands, the children it
\* ranges over (the slice is read once, when the loop starts) and the index
\* of the next one.
CloseFrame(n) == [node |-> n, pc |-> "check", kids |-> <<>>, i |-> 1]

\* A goroutine about to make a call on logger n: pc is the position in the
\* body, tmp the slice read for the append, made the logger or handler the
\* call brings, frames the activations of Close, outermost first.
GoCall(call, n, g) ==
    [call |-> call, node |-> n,
     pc |-> IF call = "NewChildLogger" THEN "alloc" ELSE IF call = "AddHandler" THEN "read" ELSE "close",
     tmp |-> <<>>,
     made |-> IF call = "AddHandler" THEN TestHandler(1 + g) ELSE TestHandler(0),
     child |-> NilLogger,
     frames |-> IF call = "Close" THEN <<CloseFrame(n)>> ELSE <<>>]

GoCalls(lg, g) ==
    {GoCall(call, n, g) : call \in {"NewChildLogger", "AddHandler", "Close"}, n \in 1..Len(lg)}

InitConc ==
    /\ loggers \in Trees
    /\ exited = FALSE
    /\ last = NoOutcome
    /\ args = <<>>
    /\ remaining = <<>>
    /\ attrs = <<>>
    /\ apc = "done"
    /\ callStack = <<>>
    /\ found = NotResolved
    /\ functionPaths = <<>>
    /\ modules = <<>>
    /\ gor \in {f \in [Goroutines -> UNION {GoCalls(loggers, g) : g \in Goroutines}] :
                   \A g \in Goroutines : f[g] \in GoCalls(loggers, g)}
    /\ events = <<>>

GoUnchanged ==
    /\ UNCHANGED <<exited, last>>
    /\ UNCHANGED attrVars
    /\ UNCHANGED callerVars

\* childLogger := NewLogger(); childLogger.parent = logger
GoNewChildAlloc ==
    \E g \in Goroutines :
        /\ gor[g].call = "NewChildLogger" /\ gor[g].pc = "alloc"
        /\ loggers' = Append(loggers, [NewLoggerStruct EXCEPT !.parent = gor[g].node])
        /\ gor' = [gor EXCEPT ![g].child = Len(loggers) + 1, ![g].pc = "read"]
        /\ UNCHANGED events
        /\ GoUnchanged

\* append(logger.children, childLogger): the slice logger.children is read.
GoChildrenRead ==
    \E g \in Goroutines :
        /\ gor[g].call = "NewChildLogger" /\ gor[g].pc = "read"
        /\ gor' = [gor EXCEPT ![g].tmp = loggers[gor[g].node].children, ![g].pc = "write"]
        /\ UNCHANGED <<loggers, events>>
        /\ GoUnchanged

\* logger.children = append(...): the slice read, with the child after it, is
\* stored.
GoChildrenWrite ==
    \E g \in Goroutines :
        /\ gor[g].call = "NewChildLogger" /\ gor[g].pc = "write"
        /\ loggers' = [loggers EXCEPT ![gor[g].node].children = Append(gor[g].tmp, gor[g].child)]
        /\ gor' = [gor EXCEPT ![g].pc = "notify"]
        /\ UNCHANGED events
        /\ GoUnchanged

\* getCaller and the loop over childLogger.Handlers().
GoCreatedNotify ==
    \E g \in Goroutines :
        /\ gor[g].call = "NewChildLogger" /\ gor[g].pc = "notify"
        /\ LET c == getCaller(<<FnGetCaller, FnNewChildLogger>> \o ProgramStack)
               d == dispatch(Handlers(loggers, gor[g].child), "OnLoggerCreated", loggers,
                             gor[g].child, c.frame, NoRecord, {})
           IN  events' = events \o d.calls
        /\ gor' = [gor EXCEPT ![g].pc = "done"]
        /\ UNCHANGED loggers
        /\ GoUnchanged

\* append(logger.RootLogger().handlers, handler): the slice is read.
GoHandlersRead ==
    \E g \in Goroutines :
        /\ gor[g].call = "AddHandler" /\ gor[g].pc = "read"
        /\ gor' = [gor EXCEPT ![g].tmp = Handlers(loggers, gor[g].node), ![g].pc = "write"]
        /\ UNCHANGED <<loggers, events>>
        /\ GoUnchanged

\* logger.RootLogger().handlers = append(...)
GoHandlersWrite ==
    \E g \in Goroutines :
        /\ gor[g].call = "AddHandler" /\ gor[g].pc = "write"
        /\ loggers' = [loggers EXCEPT ![RootLogger(loggers, gor[g].node)].handlers =
                                          Append(gor[g].tmp, gor[g].made)]
        /\ gor' = [gor EXCEPT ![g].pc = "done"]
        /\ UNCHANGED events
        /\ GoUnchanged

\* The frames of goroutine g with the innermost activation of Close replaced
\* by f, and with it gone (it has returned; the goroutine is done when none
\* is left).
WithTop(g, f) == [gor EXCEPT ![g].frames = [gor[g].frames EXCEPT ![Len(gor[g].frames)] = f]]
Returned(g) ==
    LET rest == SubSeq(gor[g].frames, 1, Len(gor[g].frames) - 1)
    IN  [gor EXCEPT ![g].frames = rest, ![g].pc = IF rest = <<>> THEN "done" ELSE "close"]
Top(g) == gor[g].frames[Len(gor[g].frames)]

\* if logger.state == LoggerState_Closed { return nil }; else the loop over
\* logger.children starts.
GoCloseCheck ==
    \E g \in Goroutines :
        /\ gor[g].call = "Close" /\ gor[g].pc = "close" /\ Top(g).pc = "check"
        /\ gor' = IF alreadyClosed(loggers, Top(g).node)
                  THEN Returned(g)
                  ELSE WithTop(g, [Top(g) EXCEPT !.pc = "range",
                                                 !.kids = loggers[Top(g).node].children])
        /\ UNCHANGED <<loggers, events>>
        /\ GoUnchanged

\* for _, child := range logger.children { child.Close() }: the next child is
\* entered, or the loop is over.
GoCloseRange ==
    \E g \in Goroutines :
        /\ gor[g].call = "Close" /\ gor[g].pc = "close" /\ Top(g).pc = "range"
        /\ gor' = IF Top(g).i <= Len(Top(g).kids)
                  THEN [gor EXCEPT ![g].frames =
                           Append([gor[g].frames EXCEPT ![Len(gor[g].frames)].i = Top(g).i + 1],
                                  CloseFrame(Top(g).kids[Top(g).i]))]
                  ELSE WithTop(g, [Top(g) EXCEPT !.pc = "notify"])
        /\ UNCHANGED <<loggers, events>>
        /\ GoUnchanged

\* getCaller and the loop over logger.Handlers().
GoCloseNotify ==
    \E g \in Goroutines :
        /\ gor[g].call = "Close" /\ gor[g].pc = "close" /\ Top(g).pc = "notify"
        /\ LET c == getCaller(<<FnGetCaller>> \o CloseFrames(Len(gor[g].frames)) \o ProgramStack)
               d == dispatch(Handlers(loggers, Top(g).node), "OnLoggerClosed",
                             closedEventHeap(loggers, Top(g).node), Top(g).node, c.frame,
                             NoRecord, {})
           IN  events' = events \o d.calls
        /\ gor' = WithTop(g, [Top(g) EXCEPT !.pc = "mark"])
        /\ UNCHANGED loggers
        /\ GoUnchanged

\* logger.state = LoggerState_Closed; return errors.Join(errs...)
GoCloseMark ==
    \E g \in Goroutines :
        /\ gor[g].call = "Close" /\ gor[g].pc = "close" /\ Top(g).pc = "mark"
        /\ loggers' = [loggers EXCEPT ![Top(g).node].state = LoggerState_Closed]
        /\ gor' = Returned(g)
        /\ UNCHANGED events
        /\ GoUnchanged

NextConc ==
    \/ GoNewChildAlloc
    \/ GoChildrenRead
    \/ GoChildrenWrite
    \/ GoCreatedNotify
    \/ GoHandlersRead
    \/ GoHandlersWrite
    \/ GoCloseCheck
    \/ GoCloseRange
    \/ GoCloseNotify
    \/ GoCloseMark

SpecConc == InitConc /\ [][NextConc]_vars

(* ------------------------ vocabulary of the claims --------------------- *)

LogOps == {"Log", "Debug", "Info", "Warn", "Error", "Fatal", "Panic"}

\* A step in which the calling code makes a call (last' tells which).
OpStep == last = NoOutcome /\ last' # NoOutcome

IsOpen(lg, n) == lg[n].state = LoggerState_Open
IsClosed(lg, n) == lg[n].state = LoggerState_Closed

\* The handler calls of `trace` that are about logger m, in order.
CallsAbout(trace, m) == SelectSeq(trace, LAMBDA c : c.node = m)

\* The handler objects of the calls of `trace`, in order.
HandlersOf(trace) == [i \in 1..Len(trace) |-> trace[i].h]

\* The errors the handler calls of `trace` returned, in order, nil ones left out.
ErrorsOf(trace) == SelectSeq([i \in 1..Len(trace) |-> trace[i].err], LAMBDA e : e # NilErr)

\* The loggers the calls of `trace` are about, in order of their first call.
RECURSIVE NodeOrder(_)
NodeOrder(trace) ==
    IF Len(trace) = 0 THEN <<>>
    ELSE LET m == trace[1].node
         IN  <<m>> \o NodeOrder(SelectSeq(Tail(trace), LAMBDA c : c.node # m))

\* Every error inside the error value e: e itself unless e is a join, whose
\* members are looked into.
RECURSIVE LeafErrors(_)
LeafErrors(e) ==
    IF e = NilErr THEN {}
    ELSE IF e.kind = "join" THEN UNION {LeafErrors(e.errs[i]) : i \in 1..Len(e.errs)}
    ELSE {e}

\* The loggers of the subtree of n that a walk from n over children lists
\* reaches without passing below a Closed logger (n itself must be Open).
RECURSIVE OpenReach(_, _, _)
OpenReach(lg, n, m) ==
    /\ IsOpen(lg, m)
    /\ \/ m = n
       \/ lg[m].parent # NilLogger /\ OpenReach(lg, n, lg[m].parent)

OpenSubtree(lg, n) == {m \in 1..Len(lg) : OpenReach(lg, n, m)}

\* The subtree of n listed in post-order and in pre-order over children lists.
RECURSIVE PostOrder(_, _)
RECURSIVE PostOrderOfAll(_, _, _)
PostOrder(lg, n) == PostOrderOfAll(lg, lg[n].children, 1) \o <<n>>
PostOrderOfAll(lg, kids, i) ==
    IF i > Len(kids) THEN <<>>
    ELSE PostOrder(lg, kids[i]) \o PostOrderOfAll(lg, kids, i + 1)

RECURSIVE PreOrder(_, _)
RECURSIVE PreOrderOfAll(_, _, _)
PreOrder(lg, n) == <<n>> \o PreOrderOfAll(lg, lg[n].children, 1)
PreOrderOfAll(lg, kids, i) ==
    IF i > Len(kids) THEN <<>>
    ELSE PreOrder(lg, kids[i]) \o PreOrderOfAll(lg, kids, i + 1)

\* The logger reached from n by k steps along parent links; NilLogger once
\* the walk has stepped off a logger with no parent.
RECURSIVE ParentWalk(_, _, _)
ParentWalk(lg, n, k) ==
    IF k = 0 \/ n = NilLogger THEN n ELSE ParentWalk(lg, lg[n].parent, k - 1)

\* The loggers that hold n in their children list, and how often p holds it.
Holders(lg, n) == {p \in 1..Len(lg) : \E i \in 1..Len(lg[p].children) : lg[p].children[i] = n}
TimesHeld(lg, p, n) == Cardinality({i \in 1..Len(lg[p].children) : lg[p].children[i] = n})

\* The depth of n counted down the children lists: 0 for a logger no list
\* holds, else one more than the depth of a logger holding it. A logger is
\* allocated after the logger that holds it, which bounds the descent.
RECURSIVE DepthByChildren(_, _)
DepthByChildren(lg, n) ==
    IF \E p \in Holders(lg, n) : p < n
    THEN 1 + DepthByChildren(lg, CHOOSE p \in Holders(lg, n) : p < n)
    ELSE 0

\* The entries of the sequence `order` that are in the set S, in order.
Restrict(order, S) == SelectSeq(order, LAMBDA m : m \in S)

(* -------------------------------- C1 ----------------------------------- *)

\* C1: Close is idempotent and the state is monotonic. A Close on an Open
\* logger leaves it Closed; a Close on a Closed logger returns nil, calls no
\* handler and leaves the whole heap as it was (its children are not closed
\* again); and no operation moves a Closed logger back to Open.
C1_CloseIdempotentMonotonic ==
    [][ /\ \A n \in Nodes : IsClosed(loggers, n) => IsClosed(loggers', n)
        /\ (OpStep /\ last'.op = "Close") =>
              /\ IsOpen(loggers, last'.node) => IsClosed(loggers', last'.node)
              /\ IsClosed(loggers, last'.node) =>
                    /\ last'.how = "return"
                    /\ last'.ret = NilErr
                    /\ last'.trace = <<>>
                    /\ loggers' = loggers ]_vars

\* A second Close has run on a Closed logger of a tree with a handler, while a
\* child of that logger is Open: no handler was called, the child stays Open.
C1_Witness ==
    /\ last.op = "Close"
    /\ last.trace = <<>>
    /\ last.ret = NilErr
    /\ IsClosed(loggers, last.node)
    /\ Len(Handlers(loggers, last.node)) > 0
    /\ \E c \in Nodes : loggers[c].parent = last.node /\ IsOpen(loggers, c)

(* -------------------------------- C2 ----------------------------------- *)

\* What one Close on the Open logger n did to the set S of loggers, walked in
\* the order `order`: every logger of S ends Closed, each handler of the tree
\* got exactly one OnLoggerClosed call for it (the calls about it are the
\* handler list, entry by entry), no other logger got a call, and the loggers
\* were notified in that order.
ClosedEachOnce(S, order) ==
    /\ \A m \in S :
          /\ IsClosed(loggers', m)
          /\ HandlersOf(CallsAbout(last'.trace, m)) = Handlers(loggers, m)
    /\ \A i \in 1..Len(last'.trace) :
          last'.trace[i].call = "OnLoggerClosed" /\ last'.trace[i].node \in S
    /\ Len(Handlers(loggers, last'.node)) > 0 => NodeOrder(last'.trace) = Restrict(order, S)

CloseOfOpen == OpStep /\ last'.op = "Close" /\ IsOpen(loggers, last'.node)

\* C2 as stated: Close on an Open logger closes every Open logger of its
\* subtree exactly once, in pre-order (a logger before its children).
C2_AsStated_PreOrder ==
    [][ CloseOfOpen =>
           ClosedEachOnce({m \in Subtree(loggers, last'.node) : IsOpen(loggers, m)},
                          PreOrder(loggers, last'.node)) ]_vars

\* C2 amended: Close on an Open logger n closes, exactly once each, the
\* loggers of its subtree reached from n through Open loggers, in post-order
\* (the children of a logger in child-list order, then the logger itself),
\* whichever OnLoggerClosed calls fail.
C2_ClosesSubtreePostOrder ==
    [][ CloseOfOpen =>
           ClosedEachOnce(OpenSubtree(loggers, last'.node),
                          PostOrder(loggers, last'.node)) ]_vars

\* A Close has notified a handler about a grandchild, a child and the logger
\* closed, and a call about the grandchild failed.
C2_Witness ==
    /\ last.op = "Close"
    /\ \E i, j, k \in 1..Len(last.trace) :
          /\ last.trace[k].node = last.node
          /\ loggers[last.trace[j].node].parent = last.node
          /\ loggers[last.trace[i].node].parent = last.trace[j].node
          /\ last.trace[i].err # NilErr

(* -------------------------------- C3 ----------------------------------- *)

\* The trace is one HandleRecord call per entry of the handler list of the
\* tree of n, in registration order, all about n.
DispatchedToAll(trace, lg, n) ==
    /\ HandlersOf(trace) = Handlers(lg, n)
    /\ \A i \in 1..Len(trace) : trace[i].call = "HandleRecord" /\ trace[i].node = n

\* The error value agg is the aggregate of the errors the calls of `trace`
\* returned: nil when none failed, else exactly the failing calls' errors in
\* call order.
AggregateOf(agg, trace) ==
    LET failed == {i \in 1..Len(trace) : trace[i].err # NilErr}
    IN  IF failed = {} THEN agg = NilErr
        ELSE /\ agg.kind = "join"
             /\ Len(agg.errs) = Cardinality(failed)
             /\ \A k \in 1..Len(agg.errs) :
                   /\ agg.errs[k].kind = "handler"
                   /\ agg.errs[k].idx \in failed
                   /\ trace[agg.errs[k].idx].err = agg.errs[k]
                   /\ \A j \in 1..(k - 1) : agg.errs[j].idx < agg.errs[k].idx

\* The aggregate a logging call gave back: the error it returned, or the
\* error its panic carries.
GivenBack(o) == IF o.how = "return" THEN o.ret ELSE o.pval

\* C3: a Log call or a leveled call on any logger calls HandleRecord exactly
\* once on each registered handler, in registration order, whichever of them
\* fail; the aggregate it returns holds exactly the failing handlers' errors
\* in registration order and is nil when none failed.
C3_DispatchToAllAggregates ==
    last.op \in LogOps =>
        /\ DispatchedToAll(last.trace, loggers, last.node)
        /\ last.op = "Log" => last.how = "return" /\ AggregateOf(last.ret, last.trace)
        /\ (last.op \in {"Debug", "Info", "Warn", "Error"}
              \/ (last.how = "panic" /\ last.pval.kind = "join"))
           => AggregateOf(GivenBack(last), last.trace)

\* A Log call on a logger below the root met two handlers: the first failed,
\* the second was called all the same and did not fail.
C3_Witness ==
    /\ last.op = "Log"
    /\ loggers[last.node].parent # NilLogger
    /\ Len(last.trace) = 2
    /\ last.trace[1].err # NilErr
    /\ last.trace[2].err = NilErr
    /\ last.ret # NilErr

(* -------------------------------- C4 ----------------------------------- *)

\* C4 as stated: after Close on an Open logger n, n and every logger of the
\* subtree of n are Closed and every handler was notified for each logger the
\* call closed; the value returned is nil exactly when no OnLoggerClosed call
\* of the cascade returned an error, and else holds every such error.
C4_AsStated_SubtreeClosed ==
    [][ CloseOfOpen =>
           /\ last'.how = "return"
           /\ \A m \in Subtree(loggers, last'.node) :
                 /\ IsClosed(loggers', m)
                 /\ IsOpen(loggers, m) =>
                       HandlersOf(CallsAbout(last'.trace, m)) = Handlers(loggers, m)
           /\ (last'.ret = NilErr) = (ErrorsOf(last'.trace) = <<>>)
           /\ LeafErrors(last'.ret) = {ErrorsOf(last'.trace)[i] :
                                          i \in 1..Len(ErrorsOf(last'.trace))} ]_vars

(* -------------------------------- C5 ----------------------------------- *)

\* The root of the tree of n, by the walk up the parent links.
TreeRoot(lg, n) == ParentWalk(lg, n, DepthByChildren(lg, n))

\* The logger an operation must tell the handlers about: the receiver of a
\* logging call, of a LogReader that read a line or of a Close on an Open
\* logger, the child NewChildLogger made (lg is the heap before the
\* operation, o what it did).
Subjects(lg, o) ==
    IF o.op \in LogOps THEN {o.node}
    ELSE IF o.op = "LogReader" /\ o.arg.lines > 0 THEN {o.node}
    ELSE IF o.op = "NewChildLogger" THEN {o.made}
    ELSE IF o.op = "Close" /\ IsOpen(lg, o.node) THEN {o.node}
    ELSE {}

\* The records or events an operation emits about one logger: one, but for
\* LogReader one per line read.
EventsOf(o) == IF o.op = "LogReader" THEN o.arg.lines ELSE 1

\* The sequence s, k times over.
RECURSIVE Repeated(_, _)
Repeated(s, k) == IF k = 0 THEN <<>> ELSE s \o Repeated(s, k - 1)

\* The handler calls of an operation about a logger are, for each record or
\* event, one call per entry of the handler list of the root of that
\* logger's tree, in registration order: for every logger the operation is
\* about, and for any other logger that got a call (lg is the heap after the
\* operation).
CallsFollowRootList(trace, subjects, times, lg) ==
    \A m \in 1..Len(lg) :
        (m \in subjects \/ CallsAbout(trace, m) # <<>>) =>
            HandlersOf(CallsAbout(trace, m)) = Repeated(lg[TreeRoot(lg, m)].handlers, times)

\* C5: AddHandler on any logger appends the handler to the handler list of
\* the root of its tree and changes no other list (nor anything else); the
\* handler calls of every operation about a logger go to the handlers of the
\* root of that logger's tree, in registration order, so a handler is called
\* for every record and lifecycle event of every logger of its tree, after
\* the handlers registered before it, and for no logger of another tree.
C5_HandlersLiveOnRoot ==
    [][ /\ \A m \in 1..Len(loggers') :
              loggers'[m].parent # NilLogger => loggers'[m].handlers = <<>>
        /\ OpStep => CallsFollowRootList(last'.trace, Subjects(loggers, last'),
                                         EventsOf(last'), loggers')
        /\ (OpStep /\ last'.op = "AddHandler") =>
              LET root == TreeRoot(loggers, last'.node)
              IN  /\ last'.arg \notin RegisteredHandlers(loggers)
                  /\ loggers' = [loggers EXCEPT
                                    ![root].handlers = Append(loggers[root].handlers, last'.arg)] ]_vars

\* While two trees exist, an operation on a logger below the root of one of
\* them has called the two handlers of that tree, the one registered first
\* before the one registered second.
C5_Witness ==
    /\ last.op \in LogOps \cup {"Close", "NewChildLogger"}
    /\ loggers[last.node].parent # NilLogger
    /\ Len(last.trace) >= 2
    /\ last.trace[1].h.id = 1
    /\ last.trace[2].h.id = 2
    /\ last.trace[2].node = last.trace[1].node
    /\ \E r \in Nodes : loggers[r].parent = NilLogger /\ r # RootLogger(loggers, last.node)

(* -------------------------------- C6 ----------------------------------- *)

IsPrefix(s, t) == Len(s) <= Len(t) /\ SubSeq(t, 1, Len(s)) = s

\* C6: NewChildLogger on p appends exactly one entry, the new logger, at the
\* end of p's children list, keeps the earlier entries in order, and leaves
\* the children list, parent link and state of every other logger as they
\* were; no operation removes or reorders an entry of a children list.
C6_ChildAppendedOnly ==
    [][ /\ \A n \in Nodes : IsPrefix(loggers[n].children, loggers'[n].children)
        /\ (OpStep /\ last'.op = "NewChildLogger") =>
              LET p == last'.node
                  child == last'.made
              IN  /\ child \notin Nodes
                  /\ child \in 1..Len(loggers')
                  /\ loggers'[p].children = Append(loggers[p].children, child)
                  /\ loggers'[p].parent = loggers[p].parent
                  /\ loggers'[p].state = loggers[p].state
                  /\ \A n \in Nodes \ {p} :
                        /\ loggers'[n].children = loggers[n].children
                        /\ loggers'[n].parent = loggers[n].parent
                        /\ loggers'[n].state = loggers[n].state ]_vars

\* NewChildLogger has given a second child to a logger whose first child is
\* Closed: the first child is still first and still Closed.
C6_Witness ==
    /\ last.op = "NewChildLogger"
    /\ Len(loggers[last.node].children) = 2
    /\ loggers[last.node].children[2] = last.made
    /\ IsClosed(loggers, loggers[last.node].children[1])

(* -------------------------------- C7 ----------------------------------- *)

Forest(lg) ==
    \A n \in 1..Len(lg) :
        LET d == DepthByChildren(lg, n)
        IN  /\ ParentWalk(lg, n, d) # NilLogger
            /\ lg[ParentWalk(lg, n, d)].parent = NilLogger
            /\ \A k \in 0..(d - 1) : lg[ParentWalk(lg, n, k)].parent # NilLogger
            /\ RootLogger(lg, n) = ParentWalk(lg, n, d)
            /\ Holders(lg, n) = IF lg[n].parent = NilLogger THEN {} ELSE {lg[n].parent}
            /\ \A p \in Holders(lg, n) : TimesHeld(lg, p, n) = 1

\* C7: the parent links form a forest. From every logger n the walk along
\* parent links reaches a logger with no parent after exactly depth(n) steps
\* and not before, RootLogger(n) is that logger, n is held (once) by the
\* children list of its parent and by no other list, and the parent of a
\* logger is never reassigned.
C7_ParentLinksFormForest ==
    [][ /\ Forest(loggers')
        /\ \A n \in Nodes : loggers'[n].parent = loggers[n].parent ]_vars

\* A logger at depth 2 exists: a child of a child of a root.
C7_Witness ==
    \E n \in Nodes :
        /\ loggers[n].parent # NilLogger
        /\ loggers[loggers[n].parent].parent # NilLogger
        /\ RootLogger(loggers, n) = loggers[loggers[n].parent].parent
        /\ last.op = "NewChildLogger"
        /\ last.made = n

(* -------------------------------- C8 ----------------------------------- *)

LeveledOps == {"Debug", "Info", "Warn", "Error"}

\* The panicOnError flag of the tree of n: the field of the root of the tree.
TreeFlag(lg, n) == lg[TreeRoot(lg, n)].panicOnError

\* C8: Debug, Info, Warn and Error on any logger return nil when dispatch
\* succeeded, whatever the flag; when dispatch failed they return the
\* aggregate if the panicOnError flag of the tree is unset and panic with the
\* aggregate if it is set. The flag is that of the tree: SetPanicOnError on
\* any logger sets the flag the calls on every logger of its tree go by, and
\* changes nothing for another tree.
C8_PanicOnErrorPolicy ==
    [][ /\ (OpStep /\ last'.op \in LeveledOps) =>
              LET failed == ErrorsOf(last'.trace) # <<>>
                  flag == TreeFlag(loggers, last'.node)
              IN  /\ DispatchedToAll(last'.trace, loggers, last'.node)
                  /\ ~failed => last'.how = "return" /\ last'.ret = NilErr
                  /\ (failed /\ ~flag) =>
                        /\ last'.how = "return"
                        /\ AggregateOf(last'.ret, last'.trace)
                  /\ (failed /\ flag) =>
                        /\ last'.how = "panic"
                        /\ AggregateOf(last'.pval, last'.trace)
                  /\ loggers' = loggers
        /\ (OpStep /\ last'.op = "SetPanicOnError") =>
              LET root == TreeRoot(loggers, last'.node)
              IN  /\ \A m \in Nodes :
                        TreeFlag(loggers', m) =
                            IF TreeRoot(loggers, m) = root
                            THEN last'.arg
                            ELSE TreeFlag(loggers, m)
                  /\ loggers' = [loggers EXCEPT ![root].panicOnError = last'.arg] ]_vars

\* A leveled call on a logger below the root, whose own panicOnError field
\* is unset, has panicked with the dispatch error because the flag of the
\* root is set, while another tree with an unset flag exists.
C8_Witness ==
    /\ last.op \in LeveledOps
    /\ last.how = "panic"
    /\ last.pval.kind = "join"
    /\ loggers[last.node].parent # NilLogger
    /\ ~loggers[last.node].panicOnError
    /\ \E r \in Nodes : /\ loggers[r].parent = NilLogger
                        /\ r # RootLogger(loggers, last.node)
                        /\ ~loggers[r].panicOnError

(* -------------------------------- C9 ----------------------------------- *)

\* C9: Fatal and Panic never return, and escalate only after the record has
\* been dispatched to every registered handler. When dispatch failed and the
\* panicOnError flag of the tree is set, both panic with the dispatch error;
\* otherwise Fatal ends the process with status 1, whether or not dispatch
\* succeeded, and Panic panics with its fixed message, whatever the flag.
C9_FatalAndPanicEscalate ==
    last.op \in {"Fatal", "Panic"} =>
        LET failed == ErrorsOf(last.trace) # <<>>
            flag == TreeFlag(loggers, last.node)
        IN  /\ last.how # "return"
            /\ DispatchedToAll(last.trace, loggers, last.node)
            /\ (failed /\ flag) =>
                  last.how = "panic" /\ AggregateOf(last.pval, last.trace)
            /\ ~(failed /\ flag) =>
                  IF last.op = "Fatal"
                  THEN last.how = "exit" /\ last.pval = ExitStatus(1) /\ exited
                  ELSE /\ last.how = "panic"
                       /\ last.pval = StringPanic("an unrecoverable error has occurred")

\* Fatal has ended the process although dispatch failed (the flag is unset),
\* after both handlers of the tree were called.
C9_Witness ==
    /\ last.op = "Fatal"
    /\ last.how = "exit"
    /\ exited
    /\ Len(last.trace) = 2
    /\ last.trace[1].err # NilErr

(* -------------------------------- C10 ---------------------------------- *)

\* The pairwise parser of the claim, scanning as from position i: a string
\* followed by another argument gives {that string, the next argument} and
\* moves on by two; a last string, or a non-string, gives {"!BADKEY", it} and
\* moves on by one.
RECURSIVE PairwiseParse(_, _)
PairwiseParse(as, i) ==
    IF i > Len(as) THEN <<>>
    ELSE IF as[i].type = "string" /\ i < Len(as)
    THEN <<[Key |-> as[i].s, Value |-> as[i + 1]]>> \o PairwiseParse(as, i + 2)
    ELSE <<[Key |-> "!BADKEY", Value |-> as[i]]>> \o PairwiseParse(as, i + 1)

\* The arguments the attributes in acc were made of, in order: a "!BADKEY"
\* attribute of its value, any other of the key string and the value.
RECURSIVE ArgsBehind(_)
ArgsBehind(acc) ==
    IF Len(acc) = 0 THEN <<>>
    ELSE (IF acc[1].Key = "!BADKEY" THEN <<acc[1].Value>>
          ELSE <<StrArg(acc[1].Key), acc[1].Value>>) \o ArgsBehind(Tail(acc))

\* C10: argsToAttrs terminates on every argument list and returns what the
\* pairwise parser gives; every argument is consumed exactly once and the
\* attributes come out in call order (the attributes made so far, with the
\* arguments still to be read, cover the argument list); ("key1",1,"key2",2)
\* gives [{key1,1},{key2,2}], ("lonekey") gives [{!BADKEY,"lonekey"}] and
\* (42,"key","v") gives [{!BADKEY,42},{key,v}].
C10_ArgsToAttrsIsPairwiseParse ==
    /\ <>(apc = "done")
    /\ [](ArgsBehind(attrs) \o remaining = args)
    /\ [](apc = "done" =>
            /\ remaining = <<>>
            /\ attrs = PairwiseParse(args, 1)
            /\ args = <<StrArg("key1"), IntArg(1), StrArg("key2"), IntArg(2)>> =>
                  attrs = <<[Key |-> "key1", Value |-> IntArg(1)],
                            [Key |-> "key2", Value |-> IntArg(2)]>>
            /\ args = <<StrArg("lonekey")>> =>
                  attrs = <<[Key |-> "!BADKEY", Value |-> StrArg("lonekey")]>>
            /\ args = <<IntArg(42), StrArg("key"), StrArg("v")>> =>
                  attrs = <<[Key |-> "!BADKEY", Value |-> IntArg(42)],
                            [Key |-> "key", Value |-> StrArg("v")]>>)

\* argsToAttrs has returned for a non-string, a pair and a last lone key.
C10_Witness ==
    /\ apc = "done"
    /\ args = <<IntArg(42), StrArg("key1"), IntArg(1), StrArg("lonekey")>>
    /\ Len(attrs) = 3

(* -------------------------------- C11 ---------------------------------- *)

\* The package a function path names: the path up to the first "." after
\* the last "/" (a package path has dots before its last "/" only).
PackageOf(functionPath) ==
    LET from == LastIndex(functionPath, "/") + 2
        dots == {i \in from..Len(functionPath) : functionPath[i] = "."}
    IN  IF dots = {} THEN functionPath
        ELSE SubSeq(functionPath, 1, (CHOOSE i \in dots : \A j \in dots : i <= j) - 1)

\* C11 as stated: the caller handed to a handler with a record or a
\* lifecycle event (by NewChildLogger, by Close for the logger closed and for
\* every logger closed below it, by Log, a leveled call or LogReader) is
\* absent or is a frame of a function outside the logging package, whatever
\* the calling code is; the caller of a record is the one resolved for the
\* call.
C11_AsStated_CallerOutsideLoggingPackage ==
    \A i \in 1..Len(last.trace) :
        LET c == last.trace[i]
        IN  /\ c.caller = NoFrame \/ PackageOf(c.caller) # Pkg
            /\ c.call = "HandleRecord" => c.record.Caller = c.caller

(* -------------------------------- C12 ---------------------------------- *)

\* The positions of the frames of `stack`, below getCaller's own, whose
\* function is of another package than getCaller's.
OutsideFrames(stack) ==
    {i \in 2..Len(stack) : PackageOf(stack[i]) # PackageOf(stack[1])}

\* The nearest frame of `stack` outside the logging package.
NearestOutside(stack) ==
    stack[CHOOSE i \in OutsideFrames(stack) : \A j \in OutsideFrames(stack) : i <= j]

\* C12 as stated: getCaller gives the nearest frame outside the logging
\* package whenever the stack has one, however many frames of the package
\* lie above it, and gives "no caller" only when the stack has none.
C12_AsStated_NearestOutsideFrame ==
    found # NotResolved =>
        IF OutsideFrames(callStack) # {}
        THEN found = CallerFound(NearestOutside(callStack))
        ELSE found = CallerNone

(* -------------------------------- C13 ---------------------------------- *)

\* C13 as stated: a handler call made with an absent caller returns, the
\* operation that made it (NewChildLogger, Close, Log, a leveled call or
\* LogReader) returns too, and every handler of the tree was called for the
\* event, also when the handlers are the repository's JsonHandler and
\* PrettyHandler.
C13_AsStated_NoCallerIsNotFatal ==
    \A i \in 1..Len(last.trace) :
        LET c == last.trace[i]
        IN  c.caller = NoFrame =>
               /\ c.how = "return"
               /\ last.how = "return"
               /\ HandlersOf(CallsAbout(last.trace, c.node))
                     = Repeated(Handlers(loggers, c.node), EventsOf(last))

(* -------------------------------- C14 ---------------------------------- *)

\* C14: NewLogger calls no handler and allocates a root; NewChildLogger on p
\* calls OnLoggerCreated exactly once on each handler of the root of p's
\* tree, in registration order, about the new child, and during each call
\* the child is linked: its parent is p, it is the last entry of p's
\* children, it has no children, its root is the root of p, and the heap is
\* the one the call leaves.
C14_CreatedEventAfterLinking ==
    [][ /\ (OpStep /\ last'.op = "NewLogger") =>
              /\ last'.trace = <<>>
              /\ loggers' = Append(loggers, NewLoggerStruct)
        /\ (OpStep /\ last'.op = "NewChildLogger") =>
              LET p == last'.node
                  child == last'.made
                  root == TreeRoot(loggers, p)
                  tr == last'.trace
              IN  /\ HandlersOf(tr) = loggers[root].handlers
                  /\ \A i \in 1..Len(tr) :
                        LET h == tr[i].heap
                        IN  /\ tr[i].call = "OnLoggerCreated"
                            /\ tr[i].node = child
                            /\ child \in 1..Len(h)
                            /\ h[child].parent = p
                            /\ Len(h[p].children) > 0
                            /\ h[p].children[Len(h[p].children)] = child
                            /\ h[child].children = <<>>
                            /\ TreeRoot(h, child) = root
                            /\ TreeRoot(h, p) = root
                            /\ h = loggers' ]_vars

\* NewChildLogger on a logger that is not the root of its tree has told the
\* two handlers of the tree about the new child, which they saw linked.
C14_Witness ==
    /\ last.op = "NewChildLogger"
    /\ loggers[last.node].parent # NilLogger
    /\ Len(last.trace) = 2
    /\ last.trace[1].h.id = 1
    /\ last.trace[2].h.id = 2
    /\ last.trace[2].heap[last.made].parent = last.node

(* -------------------------------- C15 ---------------------------------- *)

\* C15 as stated: when Log, a leveled call, Close or LogReader returns, every
\* error a handler returned during it is inside the error value it returns,
\* and a handler whose write failed returned an error (the read error of
\* LogReader aside, which ends the call before the line is logged).
C15_AsStated_NothingSwallowed ==
    (last.op \in LogOps \cup {"Close", "LogReader"} /\ last.how = "return") =>
        \A i \in 1..Len(last.trace) :
            LET c == last.trace[i]
            IN  /\ c.write = "failed" => c.err # NilErr
                /\ c.err # NilErr => c.err \in LeafErrors(last.ret)

(* -------------------------------- C16 ---------------------------------- *)

\* The position of the first call of `trace` about m, and of the last one.
FirstCallAbout(trace, m) == CHOOSE i \in 1..Len(trace) :
                               trace[i].node = m /\ \A j \in 1..(i - 1) : trace[j].node # m
LastCallAbout(trace, m) == CHOOSE i \in 1..Len(trace) :
                              trace[i].node = m /\ \A j \in (i + 1)..Len(trace) : trace[j].node # m

\* C16: within one Close on an Open logger, for the logger closed and for
\* every logger closed below it: during each OnLoggerClosed call about a
\* logger m, m is still Open and every child of m is Closed; the calls about
\* the children of m come in child-list order and all before the first call
\* about m; and m is Closed when Close returns.
C16_ChildrenClosedBeforeOwnEvent ==
    [][ CloseOfOpen =>
          LET tr == last'.trace
          IN  /\ IsClosed(loggers', last'.node)
              /\ \A k \in 1..Len(loggers[last'.node].children) :
                    IsClosed(loggers', loggers[last'.node].children[k])
              /\ \A i \in 1..Len(tr) :
                    LET m == tr[i].node
                        h == tr[i].heap
                        kids == h[m].children
                    IN  /\ IsOpen(h, m)
                        /\ IsClosed(loggers', m)
                        /\ \A k \in 1..Len(kids) :
                              /\ IsClosed(h, kids[k])
                              /\ CallsAbout(tr, kids[k]) # <<>> =>
                                    LastCallAbout(tr, kids[k]) < FirstCallAbout(tr, m)
                              /\ \A j \in 1..(k - 1) :
                                    (CallsAbout(tr, kids[j]) # <<>> /\ CallsAbout(tr, kids[k]) # <<>>)
                                    => LastCallAbout(tr, kids[j]) < FirstCallAbout(tr, kids[k]) ]_vars

\* A Close on a logger with two Open children has notified a handler about
\* the first child, then the second, then the logger itself, the call about
\* the first child failing.
C16_Witness ==
    /\ last.op = "Close"
    /\ Len(loggers[last.node].children) = 2
    /\ Len(last.trace) = 3
    /\ last.trace[1].node = loggers[last.node].children[1]
    /\ last.trace[1].err # NilErr
    /\ last.trace[2].node = loggers[last.node].children[2]
    /\ last.trace[3].node = last.node

(* -------------------------------- C18 ---------------------------------- *)

AllDone == \A g \in Goroutines : gor[g].pc = "done"

\* Every goroutine made the same call, one of calls, on the same logger.
SameCall(calls) ==
    \A g \in Goroutines :
        /\ gor[g].call \in calls
        /\ gor[g].call = gor[1].call
        /\ gor[g].node = gor[1].node

Holds(seq, x) == \E i \in 1..Len(seq) : seq[i] = x

\* C18 as stated: once concurrent NewChildLogger calls on one parent, or
\* concurrent AddHandler calls on one logger, have all returned, the child
\* each NewChildLogger made is in the children list of the parent and the
\* handler each AddHandler brought is in the handler list of the root: no
\* append is lost.
C18_AsStated_NoAppendLost ==
    (AllDone /\ SameCall({"NewChildLogger", "AddHandler"})) =>
        \A g \in Goroutines :
            /\ gor[g].call = "NewChildLogger" =>
                  Holds(loggers[gor[g].node].children, gor[g].child)
            /\ gor[g].call = "AddHandler" =>
                  Holds(Handlers(loggers, gor[g].node), gor[g].made)

(* -------------------------------- C19 ---------------------------------- *)

\* The OnLoggerClosed calls handler h has received about logger m.
ClosedEvents(h, m) ==
    Cardinality({i \in 1..Len(events) :
                    /\ events[i].call = "OnLoggerClosed"
                    /\ events[i].h = h
                    /\ events[i].node = m})

\* C19 as stated: once concurrent Close calls on one Open logger have all
\* returned, the handler registered before they started has received
\* OnLoggerClosed exactly once for each logger that is now Closed, however
\* many goroutines closed it.
C19_AsStated_ClosedEventOnce ==
    (AllDone /\ SameCall({"Close"})) =>
        \A m \in Nodes : IsClosed(loggers, m) => ClosedEvents(TestHandler(1), m) = 1

(* -------------------------------- C20 ---------------------------------- *)

\* Some logger above n is Closed.
RECURSIVE HasClosedAncestor(_, _)
HasClosedAncestor(lg, n) ==
    /\ lg[n].parent # NilLogger
    /\ \/ IsClosed(lg, lg[n].parent)
       \/ HasClosedAncestor(lg, lg[n].parent)

\* C20 as stated: once the calls made so far have returned, no Open logger
\* has a Closed logger above it.
C20_AsStated_NoOpenUnderClosed ==
    last.how = "return" =>
        \A n \in Nodes : IsOpen(loggers, n) => ~HasClosedAncestor(loggers, n)

(* -------------------------------- C21 ---------------------------------- *)

\* The module path returned for a function path of package P is P.
ReturnsPackage(module, functionPath) ==
    module = [panic |-> FALSE, path |-> PackageOf(functionPath)]

\* C21 as stated: getModulePath returns the package path for a free
\* function, a pointer-receiver method, a value-receiver method and a
\* function literal alike, so the module paths of two frames are equal
\* exactly when the frames are of the same package; on a function path with
\* no "." it panics.
C21_AsStated_ModuleIsPackage ==
    modules # <<>> =>
        /\ \A i \in 1..2 :
              IF Contains(functionPaths[i], ".")
              THEN ReturnsPackage(modules[i], functionPaths[i])
              ELSE modules[i].panic
        /\ (\A i \in 1..2 : Contains(functionPaths[i], ".")) =>
              ((modules[1] = modules[2]) <=>
                  (PackageOf(functionPaths[1]) = PackageOf(functionPaths[2])))

====
